---- MODULE Spec2Model ----
(***************************************************************************)
(* findilo: concurrent scan pipeline of src/main.go.                       *)
(*                                                                         *)
(* main() expands the ranges into the address list ips, makeJobs cuts it   *)
(* into jobs, one goroutine scan() per job probes and identifies its hosts *)
(* and sends ILOInfo records on the buffered channel out; main waits on    *)
(* the WaitGroup, closes the channel, drains it into ilo and tableRender   *)
(* sorts ilo with sort.Sort.                                               *)
(*                                                                         *)
(* Go strings that the code parses (PN, HW, FWRI, ...) are sequences of    *)
(* one-character strings; addresses and resolved names are opaque values.  *)
(***************************************************************************)
EXTENDS Integers, Sequences, FiniteSets, TLC

\* ------------------------------------------------------------------ bounds
\* longest address list (len(ipNetParsed))
MaxHosts == 3
\* number of distinct addresses a list is drawn from
MaxAddr == 3
\* capacity of the channel out; main.go:305 uses 100, scaled down here
QueueCap == 2
\* the count handed to makeJobs by main; main.go:304 uses 100, scaled down
WorkerCount == 2
\* SpecJobs: longest list and largest count handed to makeJobs
MaxJobsLen == 7
MaxCount == 4
\* SpecSort: longest collection handed to tableRender
MaxSort == 3
\* octets of an address and bits of an octet; an IPv4 net.IP has 4 octets of
\* 8 bits, scaled down here
NumOctets == 2
OctetBits == 2
\* SpecArgs: largest number of range arguments
MaxArgs == 2

\* ----------------------------------------------------------------- strings
sp == " "
notAvailable == <<"N", "/", "A">>

Digits == {"0", "1", "2", "3", "4", "5", "6", "7", "8", "9"}

DigitVal(c) ==
  CASE c = "0" -> 0 [] c = "1" -> 1 [] c = "2" -> 2 [] c = "3" -> 3
    [] c = "4" -> 4 [] c = "5" -> 5 [] c = "6" -> 6 [] c = "7" -> 7
    [] c = "8" -> 8 [] c = "9" -> 9

\* positions of character c in s
Positions(s, c) == {i \in 1..Len(s) : s[i] = c}

Min(S) == CHOOSE x \in S : \A y \in S : x <= y
Max(S) == CHOOSE x \in S : \A y \in S : y <= x

\* strings.TrimSpace
RECURSIVE TrimSpace(_)
TrimSpace(s) ==
  IF s = <<>> THEN s
  ELSE IF Head(s) = sp THEN TrimSpace(Tail(s))
  ELSE IF s[Len(s)] = sp THEN TrimSpace(SubSeq(s, 1, Len(s) - 1))
  ELSE s

\* strings.Split(s, sep) for a one-character separator: every occurrence of
\* sep cuts, so adjacent separators give an empty token and a string without
\* sep gives the one-element list <<s>>.
RECURSIVE Split(_, _)
Split(s, sep) ==
  IF Positions(s, sep) = {} THEN <<s>>
  ELSE LET i == Min(Positions(s, sep))
       IN <<SubSeq(s, 1, i - 1)>> \o Split(SubSeq(s, i + 1, Len(s)), sep)

\* value of a non-empty digit string
RECURSIVE DecVal(_)
DecVal(s) ==
  IF s = <<>> THEN 0 ELSE 10 * DecVal(SubSeq(s, 1, Len(s) - 1)) + DigitVal(s[Len(s)])

AllDigits(s) == s # <<>> /\ \A i \in 1..Len(s) : s[i] \in Digits

\* strconv.Atoi: an optional sign followed by decimal digits; every other
\* string is a syntax error.  The result is the pair (value, error) and the
\* value returned with an error is 0.
Atoi(s) ==
  IF AllDigits(s) THEN [v |-> DecVal(s), err |-> FALSE]
  ELSE IF s # <<>> /\ Head(s) = "+" /\ AllDigits(Tail(s))
    THEN [v |-> DecVal(Tail(s)), err |-> FALSE]
  ELSE IF s # <<>> /\ Head(s) = "-" /\ AllDigits(Tail(s))
    THEN [v |-> 0 - DecVal(Tail(s)), err |-> FALSE]
  ELSE [v |-> 0, err |-> TRUE]

\* s contains sub as a substring
Contains(s, sub) ==
  \E i \in 1..(Len(s) - Len(sub) + 1) : SubSeq(s, i, i + Len(sub) - 1) = sub

\* regexp.MatchString("iLO (3|4|5)", hw): unanchored, so a substring match
MatchILO345(hw) ==
  \E d \in {"3", "4", "5"} : Contains(hw, <<"i", "L", "O", sp, d>>)

\* ------------------------------------------------------- RIMP and ILOInfo
\* (r *RIMP) HW(): the regexp \((.*)\) matches from the first "(" to the last
\* ")" after it (".*" is greedy); FindAllStringSubmatch returns nil when
\* there is no match and indexing [0] then panics.
HW(r) ==
  IF Len(r.PN) = 0 THEN [panic |-> FALSE, v |-> notAvailable]
  ELSE LET opens == Positions(r.PN, "(")
           closes == Positions(r.PN, ")")
       IN IF opens # {} /\ closes # {} /\ Min(opens) < Max(closes)
          THEN [panic |-> FALSE,
                v |-> TrimSpace(SubSeq(r.PN, Min(opens) + 1, Max(closes) - 1))]
          ELSE [panic |-> TRUE, v |-> <<>>]

\* (r *RIMP) Model()
Model(r) == IF Len(r.SPN) = 0 THEN notAvailable ELSE TrimSpace(r.SPN)

\* (r *RIMP) FW()
FW(r) == IF Len(r.FWRI) = 0 THEN notAvailable ELSE TrimSpace(r.FWRI)

\* the ILOInfo built by requestInfo from a parsed document; the name fields
\* are the zero value ""
NewILOInfo(ip, r) ==
  [IP |-> ip, HW |-> HW(r).v, FW |-> FW(r), Model |-> Model(r),
   Serial |-> TrimSpace(r.SBSN), ServerName |-> "", IloName |-> ""]

\* the *ILOInfo held by scan: a nil pointer or a pointer to a record
NilInfo == [nil |-> TRUE, rec |-> NewILOInfo(0, [PN |-> <<>>, FWRI |-> <<>>, SPN |-> <<>>, SBSN |-> <<>>])]
PtrTo(rec) == [nil |-> FALSE, rec |-> rec]

\* ------------------------------------------------------------- environment
\* What a host answers.  open: the TCP connect of IsOpen succeeds; meta: the
\* answer to GET /xmldata?item=all, err when the request fails or the body is
\* not a RIMP document; name: the answer of the name endpoint that scan
\* chooses, err when the request or its decoding fails.
DocILO4 ==
  [err |-> FALSE, PN |-> <<"(", "i", "L", "O", sp, "4", ")">>,
   FWRI |-> <<"2", sp>>, SPN |-> <<"D", "L">>, SBSN |-> <<sp, "S">>]
DocEmpty ==
  [err |-> FALSE, PN |-> <<>>, FWRI |-> <<>>, SPN |-> <<>>, SBSN |-> <<>>]
DocErr ==
  [err |-> TRUE, PN |-> <<>>, FWRI |-> <<>>, SPN |-> <<>>, SBSN |-> <<>>]

NameOk == [err |-> FALSE, srv |-> "srv", ilo |-> "ilo"]
NameErr == [err |-> TRUE, srv |-> "", ilo |-> ""]

\* PN without a parenthesized segment
DocNoParen ==
  [err |-> FALSE, PN |-> <<"i", "L", "O">>, FWRI |-> <<>>, SPN |-> <<>>,
   SBSN |-> <<>>]

HostClosed == [open |-> FALSE, meta |-> DocErr, name |-> NameErr]
HostBadMeta == [open |-> TRUE, meta |-> DocErr, name |-> NameErr]
HostNoParen == [open |-> TRUE, meta |-> DocNoParen, name |-> NameErr]

\* open hosts with a document that requestInfo turns into a record: one of
\* the modern generation whose name request succeeds, one without a product
\* name whose name request fails
HostILO4 == [open |-> TRUE, meta |-> DocILO4, name |-> NameOk]
HostOld == [open |-> TRUE, meta |-> DocEmpty, name |-> NameErr]
\* a device of the modern generation whose name request fails
HostILO4NoName == [open |-> TRUE, meta |-> DocILO4, name |-> NameErr]
GoodHosts == {HostILO4, HostOld, HostILO4NoName}

Behaviours == {HostClosed, HostBadMeta, HostNoParen} \cup GoodHosts

Addrs == 1..MaxAddr

Range(s) == {s[i] : i \in DOMAIN s}

\* Address lists of 1..MaxHosts addresses, repeats allowed (ranges given on
\* the command line are concatenated without deduplication).  Addresses are
\* opaque, so lists are taken up to renaming: the first address is 1 and each
\* new address is the next unused one.
AddrLists ==
  UNION {{s \in [1..n -> Addrs] :
            /\ s[1] = 1
            /\ \A i \in 2..n : s[i] <= 1 + Max({s[k] : k \in 1..(i - 1)})}
         : n \in 1..MaxHosts}

\* ------------------------------------------------------------------- state
VARIABLES
  ips,       \* ipNetParsed: the address list (the ar of makeJobs)
  host,      \* environment: address -> behaviour
  count,     \* the count argument of makeJobs
  pcMain,    \* position of main
  chunk, start, end, res,   \* locals of makeJobs
  jobs,      \* main: the value returned by makeJobs
  j,         \* main: index of the job the spawn loop is at
  wg,        \* counter of the sync.WaitGroup
  out,       \* contents of the channel out, oldest first
  closed,    \* the channel has been closed
  bar,       \* count of the progress bar
  ilo,       \* main: the collection drained from out, sorted by tableRender
  drained,   \* history: ilo as drained, before the sort
  pc,        \* position of each worker (goroutine scan of job w)
  idx,       \* worker: index in its job of the host it is at
  info,      \* worker: its local *ILOInfo
  panicked,  \* a goroutine panicked: the process is gone
  args,      \* os.Args[1:], each a malformed string or an address/prefix
  argi,      \* main: index of the argument the range loop is at
  ip,        \* main: the net.IP of the enumeration loop, a list of octets
  ipnet      \* main: the *net.IPNet of the argument, [IP, Mask]

vars == <<ips, host, count, pcMain, chunk, start, end, res, jobs, j, wg, out,
          closed, bar, ilo, drained, pc, idx, info, panicked,
          args, argi, ip, ipnet>>

mainVars == <<pcMain, jobs, j, ilo, drained>>
jobVars == <<chunk, start, end, res>>
workerVars == <<pc, idx, info>>
argVars == <<args, argi, ip, ipnet>>
inputVars == <<ips, host, count, argVars>>

\* the argument loop of main is over (main.go:302)
ArgsParsed == args = <<>> /\ argi = 1 /\ ip = <<>> /\ ipnet = <<>>

InitRest ==
  /\ chunk = 0 /\ start = 0 /\ end = 0 /\ res = <<>>
  /\ jobs = <<>> /\ j = 1 /\ wg = 0 /\ out = <<>> /\ closed = FALSE
  /\ bar = 0 /\ drained = <<>>
  /\ pc = <<>> /\ idx = <<>> /\ info = <<>>
  /\ panicked = FALSE
  /\ ArgsParsed

\* main after the ranges are parsed and enumerated (main.go:303)
Init ==
  /\ ips \in AddrLists
  /\ host \in [Range(ips) -> Behaviours]
  /\ count = WorkerCount
  /\ pcMain = "makeJobs"
  /\ ilo = <<>>
  /\ InitRest

\* ---------------------------------------------------------------- makeJobs
\* ar[a:b] of Go, 0-based and half-open
Slice(ar, a, b) == SubSeq(ar, a + 1, b)

\* chunk := len(ar) / count; start := 0; end := count; res := [][]string{}
MakeJobsEnter ==
  /\ ~panicked /\ pcMain = "makeJobs"
  /\ chunk' = Len(ips) \div count
  /\ start' = 0
  /\ end' = count
  /\ res' = <<>>
  /\ pcMain' = "jobsLoop"
  /\ UNCHANGED <<inputVars, jobs, j, wg, out, closed, bar, ilo, drained,
                 workerVars, panicked>>

\* the loop of makeJobs with the next chunk starting one address early
MakeJobsLoopOverlap ==
  /\ ~panicked /\ pcMain = "jobsLoop"
  /\ end < Len(ips)
  /\ res' = Append(res, Slice(ips, start, end))
  /\ start' = end - 1
  /\ end' = end + chunk
  /\ UNCHANGED <<inputVars, chunk, mainVars, wg, out, closed, bar,
                 workerVars, panicked>>

\* the loop of makeJobs with the condition end <= len(ar)
MakeJobsLoopInclusive ==
  /\ ~panicked /\ pcMain = "jobsLoop"
  /\ end <= Len(ips)
  /\ res' = Append(res, Slice(ips, start, end))
  /\ start' = end
  /\ end' = end + chunk
  /\ UNCHANGED <<inputVars, chunk, mainVars, wg, out, closed, bar,
                 workerVars, panicked>>

\* one iteration of: for end < len(ar) { ... }
MakeJobsLoop ==
  /\ ~panicked /\ pcMain = "jobsLoop"
  /\ end < Len(ips)
  /\ res' = Append(res, Slice(ips, start, end))
  /\ start' = end
  /\ end' = end + chunk
  /\ UNCHANGED <<inputVars, chunk, mainVars, wg, out, closed, bar,
                 workerVars, panicked>>

\* the return of makeJobs without the final append: the tail of the list is
\* never handed out
MakeJobsReturnNoTail ==
  /\ ~panicked /\ pcMain = "jobsLoop"
  /\ ~(end < Len(ips))
  /\ jobs' = res
  /\ pc' = [w \in 1..Len(res) |-> "idle"]
  /\ idx' = [w \in 1..Len(res) |-> 0]
  /\ info' = [w \in 1..Len(res) |-> NilInfo]
  /\ j' = 1
  /\ pcMain' = "wgAdd"
  /\ UNCHANGED <<inputVars, jobVars, wg, out, closed, bar, ilo, drained,
                 panicked>>

\* res = append(res, ar[start:len(ar)]); return res; then main.go:305-312
MakeJobsReturn ==
  /\ ~panicked /\ pcMain = "jobsLoop"
  /\ ~(end < Len(ips))
  /\ LET r == Append(res, Slice(ips, start, Len(ips)))
     IN /\ res' = r
        /\ jobs' = r
        /\ pc' = [w \in 1..Len(r) |-> "idle"]
        /\ idx' = [w \in 1..Len(r) |-> 0]
        /\ info' = [w \in 1..Len(r) |-> NilInfo]
  /\ j' = 1
  /\ pcMain' = "wgAdd"
  /\ UNCHANGED <<inputVars, chunk, start, end, wg, out, closed, bar, ilo,
                 drained, panicked>>

\* ------------------------------------------------------------------ workers
Workers == DOMAIN pc

\* the host that worker w is at
HostOf(w) == jobs[w][idx[w]]

\* scan, after one host is finished (or at its start, k = 0): the next host
\* of the range loop, or wg.Done() when the job is exhausted
NextHostPc(w, k) == IF k < Len(jobs[w]) THEN "isOpen" ELSE "wgDone"

\* if IsOpen(host, iloPort): every resolve or connect error is "closed"
IsOpen(w) ==
  /\ ~panicked /\ pc[w] = "isOpen"
  /\ pc' = [pc EXCEPT ![w] = IF host[HostOf(w)].open THEN "requestInfo"
                              ELSE "increment"]
  /\ UNCHANGED <<inputVars, mainVars, jobVars, wg, out, closed, bar, idx,
                 info, panicked>>

\* info, err := requestInfo(host); if err != nil { fmt.Println(err) }
\* requestInfo returns (nil, err) when the request or xml.Unmarshal fails;
\* otherwise it builds the ILOInfo, and rinfo.HW() may panic.
RequestInfo(w) ==
  /\ ~panicked /\ pc[w] = "requestInfo"
  /\ LET doc == host[HostOf(w)].meta
     IN IF doc.err
        THEN /\ info' = [info EXCEPT ![w] = NilInfo]
             /\ pc' = [pc EXCEPT ![w] = "match"]
             /\ UNCHANGED panicked
        ELSE IF HW(doc).panic
        THEN /\ panicked' = TRUE
             /\ UNCHANGED <<pc, info>>
        ELSE /\ info' = [info EXCEPT ![w] = PtrTo(NewILOInfo(HostOf(w), doc))]
             /\ pc' = [pc EXCEPT ![w] = "match"]
             /\ UNCHANGED panicked
  /\ UNCHANGED <<inputVars, mainVars, jobVars, wg, out, closed, bar, idx>>

\* the generation branch with its two arms exchanged
MatchHWSwapped(w) ==
  /\ ~panicked /\ pc[w] = "match"
  /\ IF info[w].nil
     THEN /\ panicked' = TRUE
          /\ UNCHANGED pc
     ELSE /\ pc' = [pc EXCEPT ![w] = IF MatchILO345(info[w].rec.HW)
                                     THEN "requestServerNameV2"
                                     ELSE "requestServerName"]
          /\ UNCHANGED panicked
  /\ UNCHANGED <<inputVars, mainVars, jobVars, wg, out, closed, bar, idx, info>>

\* if match, _ := regexp.MatchString("iLO (3|4|5)", info.HW); match
\* info.HW dereferences info: a nil info is a nil-pointer panic, which ends
\* the process.
MatchHW(w) ==
  /\ ~panicked /\ pc[w] = "match"
  /\ IF info[w].nil
     THEN /\ panicked' = TRUE
          /\ UNCHANGED pc
     ELSE /\ pc' = [pc EXCEPT ![w] = IF MatchILO345(info[w].rec.HW)
                                     THEN "requestServerName"
                                     ELSE "requestServerNameV2"]
          /\ UNCHANGED panicked
  /\ UNCHANGED <<inputVars, mainVars, jobVars, wg, out, closed, bar, idx, info>>

\* the names a name request hands back: ("", "", err) on an error, which
\* scan discards
NamesOf(a) ==
  IF host[a].name.err THEN [srv |-> "", ilo |-> ""]
  ELSE [srv |-> host[a].name.srv, ilo |-> host[a].name.ilo]

SetNames(w) ==
  [info EXCEPT ![w].rec.ServerName = NamesOf(HostOf(w)).srv,
               ![w].rec.IloName = NamesOf(HostOf(w)).ilo]

\* a name request whose error makes scan give up the host: no record is sent
RequestServerNameDropOnErr(w) ==
  /\ ~panicked /\ pc[w] = "requestServerName"
  /\ info' = SetNames(w)
  /\ pc' = [pc EXCEPT ![w] = IF host[HostOf(w)].name.err THEN "increment"
                              ELSE "send"]
  /\ UNCHANGED <<inputVars, mainVars, jobVars, wg, out, closed, bar, idx,
                 panicked>>

\* srvName, iloName, _ = requestServerName(host); info.ServerName = srvName;
\* info.IloName = iloName
RequestServerName(w) ==
  /\ ~panicked /\ pc[w] = "requestServerName"
  /\ info' = SetNames(w)
  /\ pc' = [pc EXCEPT ![w] = "send"]
  /\ UNCHANGED <<inputVars, mainVars, jobVars, wg, out, closed, bar, idx,
                 panicked>>

\* srvName, iloName, _ = requestServerNameV2(host); info.ServerName = ...
RequestServerNameV2(w) ==
  /\ ~panicked /\ pc[w] = "requestServerNameV2"
  /\ info' = SetNames(w)
  /\ pc' = [pc EXCEPT ![w] = "send"]
  /\ UNCHANGED <<inputVars, mainVars, jobVars, wg, out, closed, bar, idx,
                 panicked>>

\* a send that does not block: the record is dropped when the buffer is full
\* (select with a default case)
SendNonBlocking(w) ==
  /\ ~panicked /\ pc[w] = "send"
  /\ out' = IF Len(out) < QueueCap THEN Append(out, info[w].rec) ELSE out
  /\ pc' = [pc EXCEPT ![w] = "increment"]
  /\ UNCHANGED <<inputVars, mainVars, jobVars, wg, closed, bar, idx, info,
                 panicked>>

\* out <- *info: blocks while the buffer is full; a send on a closed channel
\* panics
Send(w) ==
  /\ ~panicked /\ pc[w] = "send"
  /\ IF closed
     THEN /\ panicked' = TRUE
          /\ UNCHANGED <<out, pc>>
     ELSE /\ Len(out) < QueueCap
          /\ out' = Append(out, info[w].rec)
          /\ pc' = [pc EXCEPT ![w] = "increment"]
          /\ UNCHANGED panicked
  /\ UNCHANGED <<inputVars, mainVars, jobVars, wg, closed, bar, idx, info>>

\* bar.Increment(), then the next host of the range loop
Increment(w) ==
  /\ ~panicked /\ pc[w] = "increment"
  /\ bar' = bar + 1
  /\ pc' = [pc EXCEPT ![w] = NextHostPc(w, idx[w])]
  /\ idx' = [idx EXCEPT ![w] = IF idx[w] < Len(jobs[w]) THEN idx[w] + 1 ELSE idx[w]]
  /\ UNCHANGED <<inputVars, mainVars, jobVars, wg, out, closed, info, panicked>>

\* wg.Done(): a negative counter panics
WgDone(w) ==
  /\ ~panicked /\ pc[w] = "wgDone"
  /\ IF wg = 0
     THEN /\ panicked' = TRUE
          /\ UNCHANGED <<wg, pc>>
     ELSE /\ wg' = wg - 1
          /\ pc' = [pc EXCEPT ![w] = "done"]
          /\ UNCHANGED panicked
  /\ UNCHANGED <<inputVars, mainVars, jobVars, out, closed, bar, idx, info>>

\* --------------------------------------------------------------------- main
\* wg.Add(1)
WgAdd ==
  /\ ~panicked /\ pcMain = "wgAdd"
  /\ wg' = wg + 1
  /\ pcMain' = "go"
  /\ UNCHANGED <<inputVars, jobs, j, ilo, drained, jobVars, out, closed, bar,
                 workerVars, panicked>>

\* go scan(job, out, scanbar, wg), then the next job of the loop or wg.Wait()
GoScan ==
  /\ ~panicked /\ pcMain = "go"
  /\ pc' = [pc EXCEPT ![j] = NextHostPc(j, 0)]
  /\ idx' = [idx EXCEPT ![j] = IF 0 < Len(jobs[j]) THEN 1 ELSE 0]
  /\ j' = j + 1
  /\ pcMain' = IF j < Len(jobs) THEN "wgAdd" ELSE "wgWait"
  /\ UNCHANGED <<inputVars, jobs, ilo, drained, jobVars, wg, out, closed, bar,
                 info, panicked>>

\* a wait that returns at once, whatever the counter
WgWaitNoBarrier ==
  /\ ~panicked /\ pcMain = "wgWait"
  /\ pcMain' = "close"
  /\ UNCHANGED <<inputVars, jobs, j, ilo, drained, jobVars, wg, out, closed,
                 bar, workerVars, panicked>>

\* wg.Wait(): blocks until the counter is zero
WgWait ==
  /\ ~panicked /\ pcMain = "wgWait"
  /\ wg = 0
  /\ pcMain' = "close"
  /\ UNCHANGED <<inputVars, jobs, j, ilo, drained, jobVars, wg, out, closed,
                 bar, workerVars, panicked>>

\* close(out)
CloseOut ==
  /\ ~panicked /\ pcMain = "close"
  /\ closed' = TRUE
  /\ pcMain' = "drain"
  /\ UNCHANGED <<inputVars, jobs, j, ilo, drained, jobVars, wg, out, bar,
                 workerVars, panicked>>

\* a drain that assigns instead of appending: ilo = []ILOInfo{info}
DrainOverwrite ==
  /\ ~panicked /\ pcMain = "drain"
  /\ out # <<>>
  /\ ilo' = <<Head(out)>>
  /\ drained' = Append(drained, Head(out))
  /\ out' = Tail(out)
  /\ UNCHANGED <<inputVars, pcMain, jobs, j, jobVars, wg, closed, bar,
                 workerVars, panicked>>

\* one iteration of: for info := range out { ilo = append(ilo, info) }
Drain ==
  /\ ~panicked /\ pcMain = "drain"
  /\ out # <<>>
  /\ ilo' = Append(ilo, Head(out))
  /\ drained' = Append(drained, Head(out))
  /\ out' = Tail(out)
  /\ UNCHANGED <<inputVars, pcMain, jobs, j, jobVars, wg, closed, bar,
                 workerVars, panicked>>

\* the range loop ends when the channel is closed and empty; scanbar.Finish()
DrainEnd ==
  /\ ~panicked /\ pcMain = "drain"
  /\ out = <<>> /\ closed
  /\ pcMain' = "tableRender"
  /\ UNCHANGED <<inputVars, jobs, j, ilo, drained, jobVars, wg, out, closed,
                 bar, workerVars, panicked>>

\* -------------------------------------------------------------- tableRender
\* the i1v / i2v of the closure version: 1 unless strings.Split(HW, " ") has
\* a second element, and then the value strconv.Atoi returns for it (its
\* error is discarded)
VersionKey(hw) ==
  LET toks == Split(hw, sp)
  IN IF Len(toks) > 1 THEN Atoi(toks[2]).v ELSE 1

\* the closure version(i1, i2): return i1v < i2v
Version(i1, i2) == VersionKey(i1.HW) < VersionKey(i2.HW)

Perms(n) == {p \in [1..n -> 1..n] : \A a, b \in 1..n : p[a] = p[b] => a = b}

\* By(version).Sort(ilo): sort.Sort with Less = version.  sort.Sort promises
\* a permutation in which no element is Less than an element before it and
\* promises no order among elements that are not Less than each other; which
\* of these orders comes out depends on the Go release and on the length.
BySort(s) ==
  {t \in {[i \in 1..Len(s) |-> s[p[i]]] : p \in Perms(Len(s))} :
     \A a, b \in 1..Len(s) : a < b => ~Version(t[b], t[a])}

\* tableRender(ilo): sorts ilo in place, then renders the rows
TableRender ==
  /\ ~panicked /\ pcMain = "tableRender"
  /\ ilo' \in BySort(ilo)
  /\ pcMain' = "exit"
  /\ UNCHANGED <<inputVars, jobs, j, drained, jobVars, wg, out, closed, bar,
                 workerVars, panicked>>

\* ------------------------------------------------ ranges and enumeration
RECURSIVE Pow2(_)
Pow2(n) == IF n = 0 THEN 1 ELSE 2 * Pow2(n - 1)

\* values of an octet are 0..OctetMod-1; an address has AddrBits bits
OctetMod == Pow2(OctetBits)
AddrBits == NumOctets * OctetBits

\* x & y on octets
RECURSIVE BitAnd(_, _)
BitAnd(x, y) ==
  IF x = 0 \/ y = 0 THEN 0
  ELSE 2 * BitAnd(x \div 2, y \div 2) + (x % 2) * (y % 2)

\* net.CIDRMask(p, bits): p one bits, then zero bits, octet by octet
CIDRMask(p) ==
  [k \in 1..NumOctets |->
     LET r == p - (k - 1) * OctetBits
         ones == IF r < 0 THEN 0 ELSE IF r > OctetBits THEN OctetBits ELSE r
     IN OctetMod - Pow2(OctetBits - ones)]

\* ip.Mask(mask): a new net.IP, each octet and-ed with the mask's
MaskIP(a, mask) == [k \in 1..NumOctets |-> BitAnd(a[k], mask[k])]

\* (n *IPNet) Contains(ip)
NetContains(n, a) ==
  \A k \in 1..NumOctets : BitAnd(n.IP[k], n.Mask[k]) = BitAnd(a[k], n.Mask[k])

\* the loop of inc from octet j down: ip[j]++ wraps to 0 at OctetMod, and the
\* loop goes on to the octet before only when it wrapped
RECURSIVE IncFrom(_, _)
IncFrom(a, jj) ==
  IF jj < 1 THEN a
  ELSE LET v == (a[jj] + 1) % OctetMod
           b == [a EXCEPT ![jj] = v]
       IN IF v > 0 THEN b ELSE IncFrom(b, jj - 1)

\* inc(ip)
inc(a) == IncFrom(a, Len(a))

DigitChar(d) ==
  CASE d = 0 -> "0" [] d = 1 -> "1" [] d = 2 -> "2" [] d = 3 -> "3"
    [] d = 4 -> "4" [] d = 5 -> "5" [] d = 6 -> "6" [] d = 7 -> "7"
    [] d = 8 -> "8" [] d = 9 -> "9"

\* decimal digits of n >= 0
RECURSIVE Itoa(_)
Itoa(n) ==
  IF n < 10 THEN <<DigitChar(n)>> ELSE Itoa(n \div 10) \o <<DigitChar(n % 10)>>

\* ip.String(): the octets in decimal, joined by dots
RECURSIVE IPString(_)
IPString(a) ==
  IF Len(a) = 1 THEN Itoa(a[1])
  ELSE IPString(SubSeq(a, 1, Len(a) - 1)) \o <<".">> \o Itoa(a[Len(a)])

\* an argument: a string net.ParseCIDR rejects, or an address and a prefix
\* length
BadArg == [bad |-> TRUE, ip |-> <<>>, p |-> 0]
CIDR(a, p) == [bad |-> FALSE, ip |-> a, p |-> p]

\* net.ParseCIDR(s): (ip, ipnet, err); ipnet holds the masked address and
\* the mask
ParseCIDR(arg) ==
  [err |-> arg.bad,
   ip |-> arg.ip,
   ipnet |-> IF arg.bad THEN <<>>
             ELSE [IP |-> MaskIP(arg.ip, CIDRMask(arg.p)),
                   Mask |-> CIDRMask(arg.p)]]

\* the enumeration goes on for ever on a block that holds every address (the
\* list grows until memory is exhausted); the model follows it for one full
\* round of the address space and one address more
EnumCap == Pow2(AddrBits) + 1

\* if len(os.Args) == 1 { usage; os.Exit(1) }; var ips []string
CheckArgs ==
  /\ pcMain = "main"
  /\ pcMain' = IF Len(args) = 0 THEN "exit1" ELSE "parseCIDR"
  /\ UNCHANGED <<inputVars, jobVars, jobs, j, wg, out, closed, bar, ilo,
                 drained, workerVars, panicked>>

\* an argument loop that skips a malformed range instead of exiting
ParseArgSkipBad ==
  /\ pcMain = "parseCIDR"
  /\ LET r == ParseCIDR(args[argi])
     IN IF r.err
        THEN /\ argi' = argi + 1
             /\ pcMain' = IF argi < Len(args) THEN "parseCIDR" ELSE "makeJobs"
             /\ UNCHANGED <<ip, ipnet>>
        ELSE /\ pcMain' = "enum"
             /\ ipnet' = r.ipnet
             /\ ip' = MaskIP(r.ip, r.ipnet.Mask)
             /\ UNCHANGED argi
  /\ UNCHANGED <<ips, host, count, args, jobVars, jobs, j, wg, out,
                 closed, bar, ilo, drained, workerVars, panicked>>

\* ip, ipnet, err := net.ParseCIDR(ipNetwork); if err != nil { os.Exit(1) };
\* ip := ip.Mask(ipnet.Mask)
ParseArg ==
  /\ pcMain = "parseCIDR"
  /\ LET r == ParseCIDR(args[argi])
     IN IF r.err
        THEN /\ pcMain' = "exit1"
             /\ UNCHANGED <<ip, ipnet>>
        ELSE /\ pcMain' = "enum"
             /\ ipnet' = r.ipnet
             /\ ip' = MaskIP(r.ip, r.ipnet.Mask)
  /\ UNCHANGED <<ips, host, count, args, argi, jobVars, jobs, j, wg, out,
                 closed, bar, ilo, drained, workerVars, panicked>>

\* one iteration of: for ...; ipnet.Contains(ip); inc(ip) { ips = append(ips,
\* ip.String()) }
EnumStep ==
  /\ pcMain = "enum"
  /\ NetContains(ipnet, ip)
  /\ Len(ips) < EnumCap
  /\ ips' = Append(ips, IPString(ip))
  /\ ip' = inc(ip)
  /\ UNCHANGED <<host, count, args, argi, ipnet, pcMain, jobVars, jobs, j, wg,
                 out, closed, bar, ilo, drained, workerVars, panicked>>

\* the enumeration loop ends; the next argument, or ipNetParsed = ips after
\* the last one
EnumEnd ==
  /\ pcMain = "enum"
  /\ ~NetContains(ipnet, ip)
  /\ argi' = argi + 1
  /\ pcMain' = IF argi < Len(args) THEN "parseCIDR" ELSE "makeJobs"
  /\ UNCHANGED <<ips, host, count, args, ip, ipnet, jobVars, jobs, j, wg, out,
                 closed, bar, ilo, drained, workerVars, panicked>>

ArgsNext == CheckArgs \/ ParseArg \/ EnumStep \/ EnumEnd

\* ------------------------------------------------------------ specifications
MainNext ==
  \/ MakeJobsEnter \/ MakeJobsLoop \/ MakeJobsReturn
  \/ WgAdd \/ GoScan \/ WgWait \/ CloseOut \/ Drain \/ DrainEnd \/ TableRender

WorkerNext(w) ==
  \/ IsOpen(w) \/ RequestInfo(w) \/ MatchHW(w)
  \/ RequestServerName(w) \/ RequestServerNameV2(w)
  \/ Send(w) \/ Increment(w) \/ WgDone(w)

Next == MainNext \/ \E w \in Workers : WorkerNext(w)

\* the whole program on every address list and environment
Spec == Init /\ [][Next]_vars

\* makeJobs alone, on every list of 0..MaxJobsLen addresses and every count
InitJobs ==
  /\ \E n \in 0..MaxJobsLen : ips = [i \in 1..n |-> i]
  /\ host = [a \in Range(ips) |-> HostClosed]
  /\ count \in 1..MaxCount
  /\ pcMain = "makeJobs"
  /\ ilo = <<>>
  /\ InitRest

NextJobs == MakeJobsEnter \/ MakeJobsLoop \/ MakeJobsReturn

SpecJobs == InitJobs /\ [][NextJobs]_vars

\* tableRender alone, on every drained collection of 0..MaxSort records
HWValues ==
  {notAvailable,
   <<"i", "L", "O">>,
   <<"i", "L", "O", sp, "4">>,
   <<"i", "L", "O", sp, "2">>,
   <<"i", "L", "O", sp, "X">>}

SortRecs ==
  {[NewILOInfo(a, DocEmpty) EXCEPT !.HW = hw] : a \in 1..2, hw \in HWValues}

InitSort ==
  /\ ips = <<>>
  /\ host = <<>>
  /\ count = WorkerCount
  /\ pcMain = "tableRender"
  /\ \E n \in 0..MaxSort : ilo \in [1..n -> SortRecs]
  /\ chunk = 0 /\ start = 0 /\ end = 0 /\ res = <<>>
  /\ jobs = <<>> /\ j = 1 /\ wg = 0 /\ out = <<>> /\ closed = TRUE
  /\ bar = 0 /\ drained = ilo
  /\ pc = <<>> /\ idx = <<>> /\ info = <<>>
  /\ panicked = FALSE
  /\ ArgsParsed

NextSort == TableRender

SpecSort == InitSort /\ [][NextSort]_vars

\* the address of value n, most significant octet first
RECURSIVE OctetsOf(_, _)
OctetsOf(n, k) ==
  IF k = 0 THEN <<>> ELSE OctetsOf(n \div OctetMod, k - 1) \o <<n % OctetMod>>

AddrOf(n) == OctetsOf(n, NumOctets)

\* state of main at its first statement
InitMain ==
  /\ ips = <<>> /\ count = WorkerCount /\ pcMain = "main" /\ ilo = <<>>
  /\ chunk = 0 /\ start = 0 /\ end = 0 /\ res = <<>>
  /\ jobs = <<>> /\ j = 1 /\ wg = 0 /\ out = <<>> /\ closed = FALSE
  /\ bar = 0 /\ drained = <<>>
  /\ pc = <<>> /\ idx = <<>> /\ info = <<>>
  /\ panicked = FALSE
  /\ argi = 1 /\ ip = <<>> /\ ipnet = <<>>

\* the argument loop alone, on one range: every address with every prefix
\* length
InitEnum ==
  /\ \E n \in 0..(Pow2(AddrBits) - 1), p \in 0..AddrBits :
       args = <<CIDR(AddrOf(n), p)>>
  /\ host = <<>>
  /\ InitMain

SpecEnum == InitEnum /\ [][ArgsNext]_vars

\* the whole program from its arguments: none to MaxArgs arguments, each
\* malformed, the whole address space, or a block of one or two addresses at
\* the bottom or at the top of the address space
LastAddr == AddrOf(Pow2(AddrBits) - 1)

ArgChoices ==
  {BadArg, CIDR(AddrOf(0), 0)}
    \cup {CIDR(a, p) : a \in {AddrOf(0), LastAddr}, p \in {AddrBits - 1, AddrBits}}

\* the hosts of SpecArgs: two modern devices, an old one, the rest closed
EnvArgs ==
  [a \in {IPString(AddrOf(n)) : n \in 0..(Pow2(AddrBits) - 1)} |->
     IF a = IPString(AddrOf(0)) \/ a = IPString(LastAddr) THEN HostILO4
     ELSE IF a = IPString(AddrOf(Pow2(AddrBits) - 2)) THEN HostOld
     ELSE HostClosed]

InitArgs ==
  /\ \E n \in 0..MaxArgs : args \in [1..n -> ArgChoices]
  /\ host = EnvArgs
  /\ InitMain

NextArgs == ArgsNext \/ Next

SpecArgs == InitArgs /\ [][NextArgs]_vars

\* ================================================================ properties
AllDone == \A w \in Workers : pc[w] = "done"

\* workers that were started and have not reached Done
Running == {w \in Workers : pc[w] \notin {"idle", "done"}}

NoRepeats(s) == \A a, b \in DOMAIN s : s[a] = s[b] => a = b

\* number of records of address a in the sequence s
CountIP(s, a) == Cardinality({i \in DOMAIN s : s[i].IP = a})

\* the port of a is open and its metadata request and parse succeed
FetchOk(a) == host[a].open /\ ~host[a].meta.err

Reported == pcMain \in {"tableRender", "exit"}

\* C1: with every probe and request returning, every worker reaches Done, the
\* barrier is passed, the queue is closed and drained whatever the number of
\* open hosts; in particular the orchestrator is never waiting at the barrier
\* while a worker is blocked sending to a full queue (nothing drains the queue
\* before the barrier is passed, so such a worker is blocked forever).
C1_NoSendBlockedAtBarrier ==
  ~(/\ ~panicked
    /\ pcMain = "wgWait"
    /\ \E w \in Workers : pc[w] = "send" /\ Len(out) = QueueCap)

\* C2: the queue is closed only after every spawned worker is Done: a started
\* worker is registered with the barrier, the barrier is not passed while a
\* worker runs, nothing is sent after the close, and the drain does not end
\* before the close.
C2_StateInv ==
  /\ Cardinality(Running) <= wg
  /\ pcMain \in {"close", "drain", "tableRender", "exit"} =>
       /\ AllDone
       /\ Len(jobs) = Cardinality(Workers)
  /\ closed => AllDone
  /\ Reported => closed

C2_CloseAfterAllDone ==
  /\ []C2_StateInv
  /\ [][closed => Len(out') <= Len(out)]_vars

C2_Witness ==
  /\ closed /\ pcMain = "exit" /\ ~panicked
  /\ Len(jobs) >= 2 /\ Len(ilo) >= 2

\* C3: every host, open or closed, fetched or not, gives exactly one progress
\* notification: the count never exceeds the number of hosts and equals it
\* when the scan has ended, by the report or by the death of the process.
C3_OneNotificationPerHost ==
  /\ bar <= Len(ips)
  /\ (panicked \/ pcMain = "exit") => bar = Len(ips)

\* C4: for a list without repeats the collection handed to the reporter has
\* exactly one record for each host that is open and whose metadata fetch
\* succeeded and none for any other; a closed host is never identified; and
\* every record sent is in the queue or in the collection exactly once.
SentPositions ==
  {wk \in UNION {{<<w, k>> : k \in 1..Len(jobs[w])} : w \in Workers} :
     LET w == wk[1]
         k == wk[2]
     IN /\ FetchOk(jobs[w][k])
        /\ \/ k < idx[w]
           \/ k = idx[w] /\ pc[w] \in {"increment", "wgDone", "done"}}

C4_ReportExact ==
  /\ (Reported /\ NoRepeats(ips)) =>
       /\ \A a \in Range(ips) :
            CountIP(ilo, a) = IF FetchOk(a) THEN 1 ELSE 0
       /\ \A i \in DOMAIN ilo : ilo[i].IP \in Range(ips)
  /\ \A w \in Workers :
       pc[w] \in {"requestInfo", "match", "requestServerName",
                  "requestServerNameV2", "send"} => host[HostOf(w)].open
  /\ \A i \in DOMAIN out : host[out[i].IP].open
  /\ \A a \in Range(ips) :
       CountIP(out, a) + CountIP(ilo, a)
         = Cardinality({wk \in SentPositions : jobs[wk[1]][wk[2]] = a})

C4_Witness ==
  /\ pcMain = "exit" /\ NoRepeats(ips) /\ Len(ips) = 3
  /\ Len(ilo) = 2
  /\ \E a \in Range(ips) : ~host[a].open

\* C5: a failed metadata fetch drops the host and nothing else: the worker
\* goes on with its next host and the process is not aborted by it.
C5_FetchFailureContained ==
  ~(panicked /\ \E w \in Workers : pc[w] = "match" /\ info[w].nil)

\* concatenation of a list of lists, in order
RECURSIVE Flatten(_)
Flatten(ss) == IF ss = <<>> THEN <<>> ELSE Head(ss) \o Flatten(Tail(ss))

JobsReturned == pcMain = "wgAdd"

\* C6: for every list and every count >= 1 the jobs are an exact partition:
\* their concatenation in job order is the list; and makeJobs terminates:
\* every iteration of its loop brings end strictly closer to len(ar).
C6_ExactPartition ==
  /\ [](JobsReturned => Flatten(jobs) = ips)
  /\ [](pcMain = "jobsLoop" => Flatten(res) = Slice(ips, 0, start))
  /\ [][(pcMain = "jobsLoop" /\ pcMain' = "jobsLoop") =>
          /\ Len(ips) - end > 0
          /\ Len(ips) - end' < Len(ips) - end]_vars

C6_Witness ==
  /\ JobsReturned /\ Len(jobs) >= 3
  /\ Len(ips) % count # 0
  /\ Flatten(jobs) = ips

\* C7: makeJobs returns exactly count jobs when len(ar) >= count, fewer only
\* when len(ar) < count, never more than count; every job but the last has
\* len(ar)/count addresses and the last takes the remainder.
C7_JobCount ==
  JobsReturned =>
    /\ Len(jobs) <= count
    /\ Len(ips) >= count => Len(jobs) = count
    /\ \A k \in 1..(Len(jobs) - 1) : Len(jobs[k]) = Len(ips) \div count

\* C8: the sorted collection is a permutation of the drained one, ascending
\* by sort key, and records of equal key keep their drain order.
C8_SortStable ==
  pcMain = "exit" =>
    \E p \in Perms(Len(drained)) :
      /\ Len(ilo) = Len(drained)
      /\ \A i \in 1..Len(ilo) : ilo[i] = drained[p[i]]
      /\ \A a, b \in 1..Len(ilo) :
           a < b =>
             /\ VersionKey(ilo[a].HW) <= VersionKey(ilo[b].HW)
             /\ VersionKey(ilo[a].HW) = VersionKey(ilo[b].HW) => p[a] < p[b]

\* the whitespace-separated tokens of s
Fields(s) == SelectSeq(Split(s, sp), LAMBDA t : t # <<>>)

\* the key as the claim describes it: the second token parsed as an integer,
\* 1 when it is missing or not a number
DefaultOneKey(hw) ==
  IF Len(Fields(hw)) > 1 /\ ~Atoi(Fields(hw)[2]).err
  THEN Atoi(Fields(hw)[2]).v
  ELSE 1

\* C9: the sort key is the second token of hardwareRevision as an integer and
\* 1 when the token is missing or not numeric: the comparator orders any two
\* of the sorted records as these keys order them.
C9_KeyDefaultsToOne ==
  pcMain = "exit" =>
    \A a, b \in DOMAIN ilo :
      Version(ilo[a], ilo[b]) <=> DefaultOneKey(ilo[a].HW) < DefaultOneKey(ilo[b].HW)

\* the record of a host, from its answers alone
RecordOf(a) ==
  [NewILOInfo(a, host[a].meta) EXCEPT
     !.ServerName = IF host[a].name.err THEN "" ELSE host[a].name.srv,
     !.IloName = IF host[a].name.err THEN "" ELSE host[a].name.ilo]

\* position of the first occurrence of address a in the list
FirstPos(a) == Min({i \in DOMAIN ips : ips[i] = a})

\* C10: for a fixed list and fixed answers, every run that completes ends
\* with the same set of records, the one the answers determine, whatever the
\* order in which the records entered the queue.
C10_SameFinalSet ==
  pcMain = "exit" =>
    Range(ilo) = {RecordOf(a) : a \in {b \in Range(ips) : FetchOk(b)}}

\* a completed run in which a record of a later host was drained before a
\* record of an earlier host
C10_Witness ==
  /\ pcMain = "exit" /\ Len(jobs) >= 2
  /\ \E a, b \in DOMAIN drained :
       a < b /\ FirstPos(drained[a].IP) > FirstPos(drained[b].IP)

\* value of an address, most significant octet first
RECURSIVE AddrVal(_)
AddrVal(a) ==
  IF a = <<>> THEN 0
  ELSE OctetMod * AddrVal(SubSeq(a, 1, Len(a) - 1)) + a[Len(a)]

\* SpecEnum: the one range given, the number of addresses of its block and
\* the value of its network address
TheRange == args[1]
BlockSize == Pow2(AddrBits - TheRange.p)
NetVal == AddrVal(TheRange.ip) - (AddrVal(TheRange.ip) % BlockSize)

\* C11: a range of prefix length p is enumerated as exactly 2^(bits-p)
\* addresses, from the masked network address upwards in address order
\* without duplicates, network and broadcast address included; inc steps to
\* the successor of the address value, carrying between octets.
C11_EnumExact ==
  /\ Len(ips) <= BlockSize
  /\ \A i \in DOMAIN ips : ips[i] = IPString(AddrOf(NetVal + i - 1))
  /\ pcMain = "enum" => AddrVal(ip) = (NetVal + Len(ips)) % Pow2(AddrBits)
  /\ pcMain = "makeJobs" => Len(ips) = BlockSize

\* C12: the enumeration stops at the block boundary for every prefix length,
\* also for the block of all addresses and for a block that ends at the
\* highest address, where inc wraps to zero: once the block is exhausted the
\* loop condition is false, and no address is yielded twice.
C12_EnumStopsAtBoundary ==
  /\ NoRepeats(ips)
  /\ (pcMain = "enum" /\ Len(ips) = BlockSize) => ~NetContains(ipnet, ip)

HasBadArg == \E i \in DOMAIN args : args[i].bad

NothingScanned ==
  /\ jobs = <<>> /\ pc = <<>> /\ wg = 0 /\ bar = 0
  /\ out = <<>> /\ ilo = <<>> /\ ~closed

\* C13: with a malformed range among the arguments, at any position, the run
\* exits with code 1 when the argument loop reaches it and never starts to
\* scan: no worker, no probe, no progress notification, no report, also for
\* the valid ranges before it; nothing runs after the exit.
C13_StateInv ==
  /\ HasBadArg =>
       /\ pcMain \in {"main", "parseCIDR", "enum", "exit1"}
       /\ NothingScanned
  /\ pcMain = "exit1" =>
       /\ NothingScanned
       /\ Len(args) = 0 \/ (argi \in DOMAIN args /\ args[argi].bad)

Occ(a) == Cardinality({i \in DOMAIN ips : ips[i] = a})

\* the hosts, as (worker, index in its job), whose probe has returned
ProbedPositions ==
  {wk \in UNION {{<<w, k>> : k \in 1..Len(jobs[w])} : w \in Workers} :
     \/ wk[2] < idx[wk[1]]
     \/ wk[2] = idx[wk[1]] /\ pc[wk[1]] # "isOpen"}

Probes(a) == Cardinality({wk \in ProbedPositions : jobs[wk[1]][wk[2]] = a})

\* C17 as stated: whatever the ranges, overlapping or repeated ones included,
\* each address is probed at most once and the collection has at most one
\* record per address.
C17_OnePerAddress ==
  \A a \in Range(ips) : Probes(a) <= 1 /\ CountIP(ilo, a) <= 1

\* C17 as amended: an address is probed at most once for each of its
\* occurrences in the list, exactly that often when the run completes, and
\* the queue and the collection hold at most that many records of it; so at
\* most once and at most one when the ranges neither overlap nor repeat.
\* Nothing is probed while the list is still being built.
C17_OnePerOccurrence ==
  IF pcMain \in {"main", "parseCIDR", "enum", "exit1"}
  THEN jobs = <<>> /\ out = <<>> /\ ilo = <<>>
  ELSE /\ \A a \in Range(ips) :
            /\ Probes(a) <= Occ(a)
            /\ CountIP(out, a) + CountIP(ilo, a) <= Occ(a)
            /\ pcMain = "exit" => Probes(a) = Occ(a)
       /\ \A i \in DOMAIN ilo : ilo[i].IP \in Range(ips)

C17_Witness ==
  /\ pcMain = "exit" /\ Len(args) = 2
  /\ \E a \in Range(ips) : Occ(a) = 2 /\ Probes(a) = 2 /\ CountIP(ilo, a) = 2

NameSteps == {"requestServerName", "requestServerNameV2"}

\* the metadata fields of a record
MetaOf(r) == [HW |-> r.HW, FW |-> r.FW, Model |-> r.Model, Serial |-> r.Serial]

\* a record of a host whose name request fails: empty names, metadata as
\* requestInfo built it
NamelessOk(r) ==
  host[r.IP].name.err =>
    /\ r.ServerName = "" /\ r.IloName = ""
    /\ MetaOf(r) = MetaOf(NewILOInfo(r.IP, host[r.IP].meta))

\* C14: a failed name request, of either protocol, is swallowed: the record
\* of the host is still sent to the queue exactly once, with both names empty
\* and the metadata fields as fetched, and the worker goes on.
C14_StateInv ==
  /\ \A i \in DOMAIN out : NamelessOk(out[i])
  /\ \A i \in DOMAIN ilo : NamelessOk(ilo[i])
  /\ \A a \in Range(ips) :
       (FetchOk(a) /\ host[a].name.err) =>
         /\ CountIP(out, a) + CountIP(ilo, a)
              = Cardinality({wk \in SentPositions : jobs[wk[1]][wk[2]] = a})
         /\ (Reported /\ NoRepeats(ips)) => CountIP(ilo, a) = 1

C14_NameErrorSwallowed ==
  /\ []C14_StateInv
  /\ [][\A w \in Workers :
          (pc[w] \in NameSteps /\ host[HostOf(w)].name.err /\ pc'[w] # pc[w]) =>
            /\ pc'[w] = "send"
            /\ ~panicked'
            /\ info'[w].rec.ServerName = "" /\ info'[w].rec.IloName = ""
            /\ MetaOf(info'[w].rec) = MetaOf(info[w].rec)]_vars

C14_Witness ==
  /\ pcMain = "exit" /\ Len(ips) = 3 /\ NoRepeats(ips)
  /\ host[ips[1]] = HostILO4NoName /\ host[ips[2]] = HostOld
  /\ jobs[1][1] = ips[1] /\ Len(jobs[1]) >= 2 /\ jobs[1][2] = ips[2]
  /\ CountIP(ilo, ips[1]) = 1 /\ CountIP(ilo, ips[2]) = 1
  /\ \A i \in DOMAIN ilo : ilo[i].ServerName = ""

\* the hardware revision as the claim describes it: the sentinel when the
\* raw field is empty or has no parenthesized segment, else the trimmed
\* segment
SentinelHW(pn) ==
  IF /\ Positions(pn, "(") # {} /\ Positions(pn, ")") # {}
     /\ Min(Positions(pn, "(")) < Max(Positions(pn, ")"))
  THEN TrimSpace(SubSeq(pn, Min(Positions(pn, "(")) + 1, Max(Positions(pn, ")")) - 1))
  ELSE notAvailable

\* C15: hardware-revision extraction never fails: a document with a
\* non-empty raw field without parentheses gives a record with the sentinel
\* and does not abort the worker.
C15_HWNeverFails ==
  /\ ~(panicked /\ \E w \in Workers : pc[w] = "requestInfo")
  /\ \A i \in DOMAIN out : out[i].HW = SentinelHW(host[out[i].IP].meta.PN)
  /\ \A w \in Workers :
       (pc[w] \in {"increment", "wgDone", "done"} /\ idx[w] > 0
          /\ FetchOk(HostOf(w))) =>
         ~info[w].nil /\ info[w].rec.IP = HostOf(w)

\* hardwareRevision contains "iLO 3", "iLO 4" or "iLO 5"
ModernHW(hw) ==
  \E i \in DOMAIN hw :
    /\ i + 4 <= Len(hw)
    /\ hw[i] = "i" /\ hw[i + 1] = "L" /\ hw[i + 2] = "O" /\ hw[i + 3] = sp
    /\ hw[i + 4] \in {"3", "4", "5"}

\* C16: for every identified host exactly one name protocol is invoked, once:
\* the modern one iff hardwareRevision contains "iLO 3", "iLO 4" or "iLO 5",
\* the legacy one otherwise, the sentinel included; the record is sent only
\* after that one invocation.
C16_StateInv ==
  \A w \in Workers :
    /\ pc[w] = "requestServerName" => ~info[w].nil /\ ModernHW(info[w].rec.HW)
    /\ pc[w] = "requestServerNameV2" => ~info[w].nil /\ ~ModernHW(info[w].rec.HW)

C16_OneNameProtocol ==
  /\ []C16_StateInv
  /\ [][\A w \in Workers :
          /\ (pc'[w] \in NameSteps /\ pc'[w] # pc[w]) => pc[w] = "match"
          /\ (pc[w] \in NameSteps /\ pc'[w] # pc[w]) => pc'[w] = "send"
          /\ (pc'[w] = "send" /\ pc[w] # "send") => pc[w] \in NameSteps
          /\ (pc[w] = "match" /\ pc'[w] # "match") => pc'[w] \in NameSteps]_vars

C16_Witness ==
  \E w, v \in Workers :
    /\ pc[w] = "requestServerName" /\ info[w].rec.HW = <<"i", "L", "O", sp, "4">>
    /\ pc[v] = "requestServerNameV2" /\ info[v].rec.HW = notAvailable

\* C18: for a non-empty list and a count >= 1 every job is a non-empty
\* contiguous slice of the list, and every address is in exactly one job.
C18_JobsNonEmpty ==
  (JobsReturned /\ Len(ips) > 0) =>
    /\ \A k \in DOMAIN jobs :
         /\ Len(jobs[k]) > 0
         /\ \E a \in 0..Len(ips) : jobs[k] = Slice(ips, a, a + Len(jobs[k]))
    /\ \A i \in DOMAIN ips :
         Cardinality({km \in UNION {{<<k, m>> : m \in DOMAIN jobs[k]} : k \in DOMAIN jobs} :
                        jobs[km[1]][km[2]] = ips[i]}) = 1

C18_Witness ==
  /\ JobsReturned /\ Len(jobs) >= 3
  /\ Len(jobs[Len(jobs)]) = 1
  /\ \A k \in DOMAIN jobs : Len(jobs[k]) > 0

====
